---- MODULE Spec2Model ----
(***************************************************************************)
(* Model of src/user_app.py: the UserApp control loop (app_loop), the      *)
(* cycle (offload: update_algo_input, run_algo, execute_algo_response),    *)
(* the setters that share the condition `cond` with the loop, and          *)
(* start()/destroy().                                                      *)
(*                                                                         *)
(* Threads: the main thread (start, destroy), the loop thread (app_loop)   *)
(* and the caller threads of Callers, which call offload_now,              *)
(* set_cycle_length, set_speedup and update_slr_preferences (MaxCalls      *)
(* calls in total), and set_heating_user_preferences.                      *)
(*                                                                         *)
(* Time is the CLOCK_MONOTONIC reading `now`, in seconds.  The quotient    *)
(* cycle_time / speedup is never rounded: every comparison against the     *)
(* deadline is cross-multiplied by speedup (> 0).                          *)
(*                                                                         *)
(* Steps of one thread that no other thread can observe are one action:    *)
(* a with block that neither waits nor calls out is atomic, and so is a    *)
(* run of collaborator calls made with the lock held, whose failure point  *)
(* is chosen inside the action.                                            *)
(*                                                                         *)
(* The specifications share the actions.  Spec is the whole control        *)
(* surface, with reads that may fail and meters that stand still (every    *)
(* counter reads 0).  MeterSpec is the loop and offload_now in remote      *)
(* mode, with reads that succeed and counters that read any value of       *)
(* CounterValues, cadence and speed as constructed.  FairSpec is Spec      *)
(* under the scheduling assumptions of Fairness.  PaceSpec is the loop     *)
(* and offload_now with reads that succeed, every shape of the remote      *)
(* wait's result and the history of cycle starts.  PrefsSpec is the loop   *)
(* with callers of set_heating_user_preferences.  StorageSpec is the loop  *)
(* with a storage device whose charge level changes between reads.         *)
(***************************************************************************)
EXTENDS Integers, Sequences, FiniteSets

\* ------------------------------------------------------------------ bounds
MaxTicks == 3        \* the clock advances this many times
MaxCalls == 2        \* calls made by the caller threads, in total
MaxCounter == 1      \* largest value a cumulative counter / charge level reads

\* ------------------------------------------------------- program constants
SettleDelay == 12    \* time.sleep(12) in update_slr_preferences

ClockStep == SettleDelay \div 2  \* resolution of the modelled clock, in seconds
MaxTime == MaxTicks * ClockStep
Callers == {"c1", "c2"}
Threads == {"loop"} \cup Callers
Rooms == <<"r1", "r2">>          \* room_heating, in the mapping's order
Devices == <<"storage">> \o Rooms \* the order in which set_params is called
CycleValues == {6, 12}           \* arguments of set_cycle_length
SpeedValues == {1, 2}            \* arguments of set_speedup (> 0)
CounterValues == 0..MaxCounter
Temps == {20, 22}                \* preferred temperatures (HeatingPreferences.get_temp())

\* What runtime.wait returns: None ("noctx"), a context whose res is None
\* ("nores"), a context whose res.res is None ("empty"), or a context that
\* carries the algorithm's result ("res").
WaitOutcomes == {"noctx", "nores", "empty", "res"}

\* What the collaborators may do: the values the energy counters read, the
\* values the storage charge level reads, and whether a read may fail; and
\* whether the history of cycle starts is followed (track); and what
\* runtime.wait may return (wait).
StillEnv == [counter |-> {0}, charge |-> {0}, fail |-> TRUE, track |-> FALSE,
             wait |-> {"res", "noctx"}]
MeterEnv == [counter |-> CounterValues, charge |-> {0}, fail |-> FALSE, track |-> FALSE,
             wait |-> {"res", "noctx"}]
PaceEnv == [counter |-> {0}, charge |-> {0}, fail |-> FALSE, track |-> TRUE,
            wait |-> WaitOutcomes]
StorageEnv == [counter |-> {0}, charge |-> CounterValues, fail |-> FALSE,
               track |-> FALSE, wait |-> {"res", "noctx"}]

VARIABLES
  now,                       \* time.clock_gettime(CLOCK_MONOTONIC)
  mainPc,                    \* main thread: "new", "started", "d253", "d255", "done"
  pc,                        \* pc[t], t \in Threads
  lock,                      \* owner of cond's lock, or "free"
  notified,                  \* the loop's pending notify_all while it waits
  shutdown_flag, cycle_time, speedup, use_cognit,
  heating_user_preferences,  \* the mapping's items, in insertion order
  last_algo_run, last_active_plus, last_active_minus, last_pv_energy,
  last_storage_charge_level,
  t317,                      \* the clock value app_loop read at line 317
  until,                     \* <<num, den>>: cond.wait(sleep_time) times out at num/den
  sleepStart,                \* clock value at which time.sleep(12) began
  cyc,                       \* cyc[t]: locals of the offload() that t is running
  calls,                     \* calls made so far by the caller threads
  hist                       \* history of the run (observations only)

cfgVars == <<cycle_time, speedup, use_cognit>>
regVars == <<last_algo_run, last_active_plus, last_active_minus, last_pv_energy,
             last_storage_charge_level>>
vars == <<now, mainPc, pc, lock, notified, shutdown_flag, cfgVars,
          heating_user_preferences, regVars, t317, until, sleepStart, cyc, calls,
          hist>>

\* ----------------------------------------------------------------- helpers
\* The locals of one offload() call, before it starts.
NoCycle ==
  [now |-> 0, step |-> 0, storage0 |-> 0, iterLen |-> 0, iterAt |-> 0, idx |-> 0,
   rooms |-> <<>>,
   dplus |-> 0, dminus |-> 0, dpv |-> 0, charge |-> 0, prev |-> 0, built |-> FALSE,
   handle |-> FALSE, waits |-> 0, wait |-> "unset", res |-> "unset",
   writes |-> <<>>, regw |-> 0,
   base |-> <<0, 0, 0, 0, 0>>]

\* The pc values of a thread that is inside offload().
CyclePcs == {"u172", "u173", "u176", "u181", "r236", "r242", "o302", "oEnd", "raise"}

InCycle(t) == pc[t] \in CyclePcs

Registers == <<last_algo_run, last_active_plus, last_active_minus, last_pv_energy,
               last_storage_charge_level>>

\* Lines 323-324: clock < cycle_time / speedup + last_algo_run, as the loop
\* evaluates it with the current cycle_time, speedup and last_algo_run.
BeforeDeadline == now * speedup < cycle_time + last_algo_run * speedup

\* Lines 327-334: sleep_time = max(deadline - clock, 0.001); the wait that
\* starts now times out at the deadline, or one millisecond from now if that is
\* later.  One millisecond is below the clock's resolution: such a wait may time
\* out within the same clock value.
\* mutant: sleep_time is computed without the speed multiplier
SleepUntil_NoSpeed == <<cycle_time + last_algo_run, 1>>
SleepUntil == <<cycle_time + last_algo_run * speedup, speedup>>

\* The timeout of the cond.wait in progress has passed.
TimedOut == now * until[2] >= until[1]

\* `with self.cond:` (lines 151, 157, 162, 167, 253, 318) and the re-acquisition
\* at the end of cond.wait (line 334): the thread proceeds only with the lock free.
CanAcquire_NoLock(t) == TRUE     \* mutant: the with block is missing
CanAcquire(t) == lock = "free"

\* cond.notify_all() (lines 154, 159, 164, 169, 254): the loop thread is the
\* only waiter.
NotifyAll_Lost == notified       \* mutant: notify_all is missing
NotifyAll == notified \/ pc["loop"] = "l334"

\* Line 319: `while not self.shutdown_flag`.
OuterWhile_Always == TRUE        \* mutant: `while True`
OuterWhile == ~shutdown_flag

\* Lines 322-326: `while (clock < deadline and not self.shutdown_flag) or not slept`.
\* mutant: the test is made against the deadline the wait was started with
InnerWhile_OldDeadline(slept) == (~TimedOut /\ ~shutdown_flag) \/ ~slept
\* mutant: `or not slept` is missing
InnerWhile_NoSlept(slept) == BeforeDeadline /\ ~shutdown_flag
InnerWhile(slept) == (BeforeDeadline /\ ~shutdown_flag) \/ ~slept

\* Line 302: `if algo_res is not None`.
Actuates_Always(res) == TRUE     \* mutant: the test of algo_res is missing
Actuates(res) == res # "none"

\* Line 172: math.floor((now - self.last_algo_run) * self.speedup).  Clock values
\* and speedup are integers here, so the floor is the product itself.
StepTimedelta(n) == (n - last_algo_run) * speedup

\* Lines 182-189: the delta against the register, and the register's new value.
Delta(raw, last) == raw - last
Observe_Stale(raw, last) == last \* mutant: the register is not updated
Observe(raw, last) == raw

\* The first k elements of a sequence.
Prefix(seq, k) == [i \in 1..k |-> seq[i]]

\* ------------------------------------------------------------------- Init
Init ==
  /\ now = 0
  /\ mainPc = "new"
  /\ pc = [t \in Threads |-> "idle"]
  /\ lock = "free"
  /\ notified = FALSE
  /\ shutdown_flag = FALSE
  /\ cycle_time \in CycleValues
  /\ speedup \in SpeedValues
  /\ use_cognit \in BOOLEAN
  /\ heating_user_preferences = <<[room |-> "r1", temp |-> 20]>>
  /\ last_algo_run = 0
  /\ last_active_plus = 0
  /\ last_active_minus = 0
  /\ last_pv_energy = 0
  /\ last_storage_charge_level = 0
  /\ t317 = 0
  /\ until = <<0, 1>>
  /\ sleepStart = 0
  /\ cyc = [t \in Threads |-> NoCycle]
  /\ calls = 0
  /\ hist = [sumPlus |-> 0, sumMinus |-> 0, sumPv |-> 0,
             readPlus |-> 0, readMinus |-> 0, readPv |-> 0, flagSetAt |-> "none",
             loopStartsAfterFlag |-> 0, lastStart |-> 0, lastBy |-> "none",
             prefCalls |-> 0, prevPrefs |-> <<[room |-> "r1", temp |-> 20]>>,
             lateWait |-> FALSE]

\* ------------------------------------------------------------ environment
\* The monotonic clock advances.
Tick ==
  /\ now + ClockStep <= MaxTime
  /\ now' = now + ClockStep
  /\ UNCHANGED <<mainPc, pc, lock, notified, shutdown_flag, cfgVars,
                 heating_user_preferences, regVars, t317, until, sleepStart, cyc,
                 calls, hist>>

\* ------------------------------------------------------------ main thread
\* start(), lines 247-249.
start ==
  /\ mainPc = "new"
  /\ mainPc' = "started"
  /\ pc' = [pc EXCEPT !["loop"] = "l317"]
  /\ UNCHANGED <<now, lock, notified, shutdown_flag, cfgVars,
                 heating_user_preferences, regVars, t317, until, sleepStart, cyc,
                 calls, hist>>

\* Where the loop thread is when destroy() sets the flag.
LoopPhase ==
  IF InCycle("loop") THEN "cycle"
  ELSE IF pc["loop"] = "l334" /\ lock # "free" THEN "blocked"
  ELSE IF pc["loop"] = "l334" THEN "idle"
  ELSE "other"

\* destroy(), line 252: the flag is set without the lock.
destroy_252 ==
  /\ mainPc = "started"
  /\ mainPc' = "d253"
  /\ shutdown_flag' = TRUE
  /\ hist' = [hist EXCEPT !.flagSetAt = LoopPhase]
  /\ UNCHANGED <<now, pc, lock, notified, cfgVars, heating_user_preferences,
                 regVars, t317, until, sleepStart, cyc, calls>>

\* destroy(), lines 253-254: with self.cond: self.cond.notify_all().
destroy_253 ==
  /\ mainPc = "d253"
  /\ CanAcquire("main")
  /\ notified' = NotifyAll
  /\ mainPc' = "d255"
  /\ UNCHANGED <<now, pc, lock, shutdown_flag, cfgVars, heating_user_preferences,
                 regVars, t317, until, sleepStart, cyc, calls, hist>>

\* destroy(), lines 255-257: app_thread.join() returns once the loop thread has
\* ended, then runtime.delete().
destroy_255 ==
  /\ mainPc = "d255"
  /\ pc["loop"] \in {"exit", "crashed"}
  /\ mainPc' = "done"
  /\ UNCHANGED <<now, pc, lock, notified, shutdown_flag, cfgVars,
                 heating_user_preferences, regVars, t317, until, sleepStart, cyc,
                 calls, hist>>

\* ------------------------------------------------- offload(), by any thread
Goto(t, to) == pc' = [pc EXCEPT ![t] = to]

\* offload, line 260: the thread that enters offload() reads the clock.
BeginCycle(t) ==
  /\ cyc' = [cyc EXCEPT ![t] = [NoCycle EXCEPT !.now = now, !.base = Registers]]
  /\ Goto(t, "u172")

\* What a step inside offload() leaves alone besides pc, cyc, the registers and
\* hist.
cycleFrame == <<now, mainPc, lock, notified, shutdown_flag, cfgVars,
                heating_user_preferences, t317, until, sleepStart, calls>>

\* ------------------------------------------------------------ loop thread
\* app_loop, line 317, first half: the loop thread reads the clock, before it
\* takes the lock.
app_loop_317_read ==
  /\ pc["loop"] = "l317"
  /\ t317' = now
  /\ Goto("loop", "l317w")
  /\ UNCHANGED <<now, mainPc, lock, notified, shutdown_flag, cfgVars,
                 heating_user_preferences, regVars, until, sleepStart, cyc, calls,
                 hist>>

\* app_loop, line 317, second half: it stores the value in last_algo_run.
app_loop_317_store ==
  /\ pc["loop"] = "l317w"
  /\ last_algo_run' = t317
  /\ t317' = 0
  /\ Goto("loop", "l318")
  /\ UNCHANGED <<now, mainPc, lock, notified, shutdown_flag, cfgVars,
                 heating_user_preferences, last_active_plus, last_active_minus,
                 last_pv_energy, last_storage_charge_level, until, sleepStart, cyc,
                 calls, hist>>

\* Lines 319-337 with the lock held: the outer test; when it fails the thread
\* leaves the with block and ends.  When it passes, slept = False (line 320) and
\* the inner test: true, the thread computes sleep_time and waits, which
\* releases the lock; false, it calls offload() with the lock still held.
LoopTop ==
  /\ notified' = FALSE
  /\ IF ~OuterWhile
     THEN /\ Goto("loop", "exit")
          /\ until' = <<0, 1>>
          /\ lock' = "free"
          /\ cyc' = [cyc EXCEPT !["loop"] = NoCycle]
          /\ hist' = hist
     ELSE IF InnerWhile(FALSE)
     THEN /\ Goto("loop", "l334")
          /\ until' = SleepUntil
          /\ lock' = "free"
          /\ cyc' = [cyc EXCEPT !["loop"] = NoCycle]
          /\ hist' = [hist EXCEPT !.lateWait = pc["loop"] = "oEnd" /\ ~BeforeDeadline]
     ELSE /\ until' = <<0, 1>>
          /\ lock' = "loop"
          /\ BeginCycle("loop")
          /\ hist' = hist

\* app_loop, line 318: `with self.cond`, then the first pass of lines 319-334.
app_loop_318 ==
  /\ pc["loop"] = "l318"
  /\ CanAcquire("loop")
  /\ LoopTop
  /\ UNCHANGED <<now, mainPc, shutdown_flag, cfgVars, heating_user_preferences,
                 regVars, t317, sleepStart, calls>>

\* app_loop, lines 334-335 and 322-337: cond.wait returns (notified or timed
\* out) with the lock re-acquired, slept = True, and the inner test is evaluated
\* again: the thread waits again, or leaves the inner loop and calls offload()
\* with the lock held.
app_loop_wake ==
  /\ pc["loop"] = "l334"
  /\ notified \/ TimedOut
  /\ CanAcquire("loop")
  /\ notified' = FALSE
  /\ IF InnerWhile(TRUE)
     THEN /\ until' = SleepUntil
          /\ hist' = [hist EXCEPT !.lateWait = FALSE]
          /\ UNCHANGED <<pc, lock, cyc>>
     ELSE /\ until' = <<0, 1>>
          /\ lock' = "loop"
          /\ BeginCycle("loop")
          /\ hist' = [hist EXCEPT !.lateWait = FALSE,
                                  !.loopStartsAfterFlag = IF shutdown_flag THEN 1 ELSE @]
  /\ UNCHANGED <<now, mainPc, shutdown_flag, cfgVars, heating_user_preferences,
                 regVars, t317, sleepStart, calls>>

\* app_loop, line 337 back to 319: offload() returned; the outer test again.
app_loop_319 ==
  /\ pc["loop"] = "oEnd"
  /\ LoopTop
  /\ UNCHANGED <<now, mainPc, shutdown_flag, cfgVars, heating_user_preferences,
                 regVars, t317, sleepStart, calls>>

\* An exception raised in offload() is not caught in app_loop (lines 316-337 have
\* no try): it leaves the with block, which releases the lock, and ends the thread.
app_loop_raise ==
  /\ pc["loop"] = "raise"
  /\ Goto("loop", "crashed")
  /\ lock' = "free"
  /\ cyc' = [cyc EXCEPT !["loop"] = NoCycle]
  /\ UNCHANGED <<now, mainPc, notified, shutdown_flag, cfgVars,
                 heating_user_preferences, regVars, t317, until, sleepStart, calls,
                 hist>>

\* --------------------------------------------------------- update_algo_input
\* A collaborator read of update_algo_input raises: the exception propagates.
ReadFails(t) ==
  /\ Goto(t, "raise")
  /\ hist' = hist

\* update_algo_input, line 172: step_timedelta_s, from the register as it is now.
update_algo_input_172(t) ==
  /\ pc[t] = "u172"
  /\ cyc' = [cyc EXCEPT ![t].step = StepTimedelta(cyc[t].now)]
  /\ Goto(t, "u173")
  /\ UNCHANGED <<cycleFrame, regVars, hist>>

\* The history once thread t has executed line 173: the start time of its cycle
\* (the clock value read at line 260) is the latest cycle start, by the loop
\* thread or by a caller of offload_now.
Started(t, env) ==
  IF env.track
  THEN [hist EXCEPT !.lastStart = cyc[t].now,
                    !.lastBy = IF t = "loop" THEN "loop" ELSE "forced"]
  ELSE hist

\* update_algo_input, lines 173-176: last_algo_run = now; then
\* storage_parameters = energy_storage.get_info(), which may fail; then the
\* iterator over heating_user_preferences.items() is created.
update_algo_input_173(t, env) ==
  /\ pc[t] = "u173"
  /\ last_algo_run' = cyc[t].now
  /\ hist' = Started(t, env)
  /\ \/ \E v \in env.charge :
          /\ cyc' = [cyc EXCEPT ![t].storage0 = v,
                                ![t].iterLen = Len(heating_user_preferences),
                                ![t].iterAt = hist.prefCalls,
                                ![t].regw = @ + 1]
          /\ Goto(t, "u176")
     \/ /\ env.fail
        /\ cyc' = [cyc EXCEPT ![t].regw = @ + 1]
        /\ Goto(t, "raise")
  /\ UNCHANGED <<cycleFrame, last_active_plus, last_active_minus, last_pv_energy,
                 last_storage_charge_level>>

\* update_algo_input, lines 176-179: one step of the for loop.  The iterator
\* raises RuntimeError when the mapping's size differs from the size it had when
\* the iteration began; past the last item the loop ends; otherwise the room's
\* get_info() is read, and may fail.
update_algo_input_176(t, env) ==
  /\ pc[t] = "u176"
  /\ IF Len(heating_user_preferences) # cyc[t].iterLen
     THEN ReadFails(t) /\ cyc' = cyc
     ELSE IF cyc[t].idx = cyc[t].iterLen
     THEN Goto(t, "u181") /\ UNCHANGED <<cyc, hist>>
     ELSE \/ /\ cyc' = [cyc EXCEPT
                          ![t].rooms = Append(@, heating_user_preferences[cyc[t].idx + 1]),
                          ![t].idx = @ + 1]
             /\ UNCHANGED <<pc, hist>>
          \/ env.fail /\ ReadFails(t) /\ cyc' = cyc
  /\ UNCHANGED <<cycleFrame, regVars>>

\* update_algo_input, lines 181-217, run with the lock held: the reads of the
\* metrology, the PV device, the outdoor sensor and the storage device, each of
\* which may fail, with the register writes that follow each read; when all four
\* succeed the AlgoParams record is built from the deltas.
update_algo_input_181(t, env) ==
  /\ pc[t] = "u181"
  /\ \/ \* metrology.get_energy_total() fails (line 181)
        /\ env.fail
        /\ ReadFails(t)
        /\ UNCHANGED <<cyc, regVars>>
     \/ \* pv.get_info() fails (line 187), after lines 184-185
        \E p \in env.counter, m \in env.counter :
          /\ env.fail
          /\ last_active_plus' = Observe(p, last_active_plus)
          /\ last_active_minus' = Observe(m, last_active_minus)
          /\ cyc' = [cyc EXCEPT ![t].regw = @ + 2]
          /\ Goto(t, "raise")
          /\ hist' = [hist EXCEPT !.readPlus = p, !.readMinus = m]
          /\ UNCHANGED <<last_algo_run, last_pv_energy, last_storage_charge_level>>
     \/ \* the sensor (line 191) or the storage device (line 193) fails, after line 189
        \E p \in env.counter, m \in env.counter, v \in env.counter :
          /\ env.fail
          /\ last_active_plus' = Observe(p, last_active_plus)
          /\ last_active_minus' = Observe(m, last_active_minus)
          /\ last_pv_energy' = Observe(v, last_pv_energy)
          /\ cyc' = [cyc EXCEPT ![t].regw = @ + 3]
          /\ Goto(t, "raise")
          /\ hist' = [hist EXCEPT !.readPlus = p, !.readMinus = m, !.readPv = v]
          /\ UNCHANGED <<last_algo_run, last_storage_charge_level>>
     \/ \* every read succeeds
        \E p \in env.counter, m \in env.counter, v \in env.counter, c \in env.charge :
          /\ last_active_plus' = Observe(p, last_active_plus)
          /\ last_active_minus' = Observe(m, last_active_minus)
          /\ last_pv_energy' = Observe(v, last_pv_energy)
          /\ last_storage_charge_level' = c
          /\ cyc' = [cyc EXCEPT ![t].dplus = Delta(p, last_active_plus),
                                ![t].dminus = Delta(m, last_active_minus),
                                ![t].dpv = Delta(v, last_pv_energy),
                                ![t].charge = c,
                                ![t].prev = last_storage_charge_level,
                                ![t].regw = @ + 4,
                                ![t].built = TRUE]
          /\ Goto(t, "r236")
          /\ hist' = [hist EXCEPT !.readPlus = p, !.readMinus = m, !.readPv = v,
                                  !.sumPlus = @ + Delta(p, last_active_plus),
                                  !.sumMinus = @ + Delta(m, last_active_minus),
                                  !.sumPv = @ + Delta(v, last_pv_energy)]
          /\ last_algo_run' = last_algo_run
  /\ UNCHANGED cycleFrame

\* ------------------------------------------------------------------ run_algo
\* The AlgoParams record has been handed to the decision step (line 238 / 240);
\* after that offload() only reports it.
Handed(c) ==
  [c EXCEPT !.now = 0, !.step = 0, !.storage0 = 0, !.iterLen = 0, !.iterAt = 0,
            !.idx = 0,
            !.rooms = <<>>, !.dplus = 0, !.dminus = 0, !.dpv = 0, !.charge = 0,
            !.prev = 0, !.regw = 0, !.base = <<0, 0, 0, 0, 0>>]

\* run_algo, lines 236-240: local mode calls decision_algo, which returns a
\* result, returns None, or raises; remote mode submits with call_async, which
\* returns a handle or None.
run_algo_236(t) ==
  /\ pc[t] = "r236"
  /\ IF ~use_cognit
     THEN \/ \E r \in {"res", "none"} :
               /\ cyc' = [cyc EXCEPT ![t] = [Handed(@) EXCEPT !.res = r]]
               /\ Goto(t, "o302")
          \/ /\ cyc' = [cyc EXCEPT ![t] = Handed(@)]
             /\ Goto(t, "raise")
     ELSE \/ /\ cyc' = [cyc EXCEPT ![t] = [Handed(@) EXCEPT !.handle = TRUE]]
             /\ Goto(t, "r242")
          \/ /\ cyc' = [cyc EXCEPT ![t] = [Handed(@) EXCEPT !.res = "none"]]
             /\ Goto(t, "o302")
  /\ UNCHANGED <<cycleFrame, regVars, hist>>

\* Lines 243-245: ret is res_ctx.res.res when res_ctx and res_ctx.res are not
\* None, and stays None otherwise; res_ctx.res.res may itself be None.
\* mutant: the tests of line 243 are missing
WaitRet_Unchecked(w) == "res"
WaitRet(w) == IF w = "res" THEN "res" ELSE "none"

\* run_algo, lines 241-245: with a handle (line 241),
\* runtime.wait(exec_id, cognit_timeout) is called and returns within the
\* timeout; run_algo returns WaitRet of what it returned.
run_algo_242(t, env) ==
  /\ pc[t] = "r242"
  /\ cyc[t].handle
  /\ \E w \in env.wait :
       cyc' = [cyc EXCEPT ![t].waits = @ + 1, ![t].wait = w, ![t].res = WaitRet(w)]
  /\ Goto(t, "o302")
  /\ UNCHANGED <<cycleFrame, regVars, hist>>

\* offload, lines 302-314, and execute_algo_response, lines 219-233: with a
\* result, set_params is called on the storage device and then on every room's
\* device, in order; the first call that raises ends execute_algo_response and
\* the cycle.  k is the number of calls that succeed.
offload_302(t) ==
  /\ pc[t] = "o302"
  /\ IF Actuates(cyc[t].res)
     THEN \E k \in 0..Len(Devices) :
            /\ cyc' = [cyc EXCEPT ![t].writes = Prefix(Devices, k)]
            /\ IF k = Len(Devices) THEN Goto(t, "oEnd") ELSE Goto(t, "raise")
     ELSE /\ Goto(t, "oEnd")
          /\ cyc' = cyc
  /\ UNCHANGED <<cycleFrame, regVars, hist>>

\* ---------------------------------------------------------- caller threads
\* A caller thread is free to make a call.
CanCall(t) == pc[t] = "idle" /\ calls < MaxCalls

\* set_cycle_length, lines 161-164.
set_cycle_length(t, cycle) ==
  /\ CanCall(t)
  /\ CanAcquire(t)
  /\ calls' = calls + 1
  /\ cycle_time' = cycle
  /\ notified' = NotifyAll
  /\ UNCHANGED <<now, mainPc, pc, lock, shutdown_flag, speedup, use_cognit,
                 heating_user_preferences, regVars, t317, until, sleepStart, cyc,
                 hist>>

\* set_speedup, lines 166-169.
set_speedup(t, s) ==
  /\ CanCall(t)
  /\ CanAcquire(t)
  /\ calls' = calls + 1
  /\ speedup' = s
  /\ notified' = NotifyAll
  /\ UNCHANGED <<now, mainPc, pc, lock, shutdown_flag, cycle_time, use_cognit,
                 heating_user_preferences, regVars, t317, until, sleepStart, cyc,
                 hist>>

\* dict.__setitem__ on a mapping kept as the sequence of its items: the value of
\* an existing key is replaced in place, a new key is added at the end.
SetItem(m, room, pref) ==
  IF \E i \in 1..Len(m) : m[i].room = room
  THEN [i \in 1..Len(m) |-> IF m[i].room = room THEN [room |-> room, temp |-> pref]
                                                ELSE m[i]]
  ELSE Append(m, [room |-> room, temp |-> pref])

\* set_heating_user_preferences, lines 142-143: one store into the mapping, made
\* without the lock.
set_heating_user_preferences(t, room, pref) ==
  /\ CanCall(t)
  /\ calls' = calls + 1
  /\ heating_user_preferences' = SetItem(heating_user_preferences, room, pref)
  /\ hist' = [hist EXCEPT !.prefCalls = @ + 1, !.prevPrefs = heating_user_preferences]
  /\ UNCHANGED <<now, mainPc, pc, lock, notified, shutdown_flag, cfgVars, regVars,
                 t317, until, sleepStart, cyc>>

\* update_slr_preferences, lines 151-153: the lock is taken, runtime.update is
\* called and time.sleep(12) begins.  Without a runtime (use_cognit false, line
\* 110) or when runtime.update raises, the exception leaves the with block.
\* The call is made only while the modelled clock can still reach the end of
\* the sleep.
update_slr_preferences_151(t) ==
  /\ CanCall(t)
  /\ CanAcquire(t)
  /\ now + SettleDelay <= MaxTime
  /\ calls' = calls + 1
  /\ \/ /\ use_cognit
        /\ lock' = t
        /\ sleepStart' = now
        /\ Goto(t, "s153")
     \/ UNCHANGED <<lock, sleepStart, pc>>
  /\ UNCHANGED <<now, mainPc, notified, shutdown_flag, cfgVars,
                 heating_user_preferences, regVars, t317, until, cyc, hist>>

\* update_slr_preferences, lines 153-154: the sleep is over; notify_all, and the
\* with block releases the lock.
update_slr_preferences_154(t) ==
  /\ pc[t] = "s153"
  /\ now >= sleepStart + SettleDelay
  /\ lock' = "free"
  /\ sleepStart' = 0
  /\ notified' = NotifyAll
  /\ Goto(t, "idle")
  /\ UNCHANGED <<now, mainPc, shutdown_flag, cfgVars, heating_user_preferences,
                 regVars, t317, until, cyc, calls, hist>>

\* mutant: offload_now waits for the loop's deadline before it runs the cycle
offload_now_157_AtDeadline(t) ==
  /\ ~BeforeDeadline
  /\ CanCall(t)
  /\ CanAcquire(t)
  /\ calls' = calls + 1
  /\ lock' = t
  /\ BeginCycle(t)
  /\ UNCHANGED <<now, mainPc, notified, shutdown_flag, cfgVars,
                 heating_user_preferences, regVars, t317, until, sleepStart, hist>>

\* offload_now, lines 157-158: the lock is taken and offload() begins.
offload_now_157(t) ==
  /\ CanCall(t)
  /\ CanAcquire(t)
  /\ calls' = calls + 1
  /\ lock' = t
  /\ BeginCycle(t)
  /\ UNCHANGED <<now, mainPc, notified, shutdown_flag, cfgVars,
                 heating_user_preferences, regVars, t317, until, sleepStart, hist>>

\* offload_now, line 159: offload() returned; notify_all, and the with block
\* releases the lock.
offload_now_159(t) ==
  /\ pc[t] = "oEnd"
  /\ lock' = "free"
  /\ notified' = NotifyAll
  /\ cyc' = [cyc EXCEPT ![t] = NoCycle]
  /\ Goto(t, "idle")
  /\ UNCHANGED <<now, mainPc, shutdown_flag, cfgVars, heating_user_preferences,
                 regVars, t317, until, sleepStart, calls, hist>>

\* offload_now: offload() raised; the exception leaves the with block, which
\* releases the lock, before line 159 is reached.
offload_now_raise(t) ==
  /\ pc[t] = "raise"
  /\ lock' = "free"
  /\ cyc' = [cyc EXCEPT ![t] = NoCycle]
  /\ Goto(t, "idle")
  /\ UNCHANGED <<now, mainPc, notified, shutdown_flag, cfgVars,
                 heating_user_preferences, regVars, t317, until, sleepStart, calls,
                 hist>>

\* ------------------------------------------------------------ specifications
\* The steps of the main thread and of the loop thread outside offload().
MainStep == start \/ destroy_252 \/ destroy_253 \/ destroy_255

LoopStep ==
  \/ app_loop_317_read
  \/ app_loop_317_store
  \/ app_loop_318
  \/ app_loop_wake
  \/ app_loop_319
  \/ app_loop_raise

\* One step of offload() by thread t, with collaborators that behave as env says.
CycleStep(t, env) ==
  \/ update_algo_input_172(t)
  \/ update_algo_input_173(t, env)
  \/ update_algo_input_176(t, env)
  \/ update_algo_input_181(t, env)
  \/ run_algo_236(t)
  \/ run_algo_242(t, env)
  \/ offload_302(t)

\* offload_now by caller t.
ForcedStep(t) == offload_now_157(t) \/ offload_now_159(t) \/ offload_now_raise(t)

\* The other calls of caller t.
SetterStep(t) ==
  \/ \E c \in CycleValues : set_cycle_length(t, c)
  \/ \E s \in SpeedValues : set_speedup(t, s)
  \/ update_slr_preferences_151(t)
  \/ update_slr_preferences_154(t)

Next ==
  \/ Tick
  \/ MainStep
  \/ LoopStep
  \/ \E t \in Threads : CycleStep(t, StillEnv)
  \/ \E t \in Callers : ForcedStep(t)
  \/ \E t \in Callers : SetterStep(t)

Spec == Init /\ [][Next]_vars

MeterNext ==
  \/ Tick
  \/ start
  \/ LoopStep
  \/ \E t \in Threads : CycleStep(t, MeterEnv)
  \/ \E t \in Callers : ForcedStep(t)

MeterInit == Init /\ cycle_time = 6 /\ speedup = 1 /\ use_cognit

MeterSpec == MeterInit /\ [][MeterNext]_vars

\* The loop and offload_now with collaborators that answer, for every cadence
\* and speed of CycleValues and SpeedValues, no reconfiguration and no shutdown.
PaceNext ==
  \/ Tick
  \/ start
  \/ LoopStep
  \/ \E t \in Threads : CycleStep(t, PaceEnv)
  \/ \E t \in Callers : ForcedStep(t)

PaceSpec == Init /\ [][PaceNext]_vars

\* The loop with collaborators that answer, and callers that store heating
\* preferences of the rooms of room_heating.
PrefsNext ==
  \/ Tick
  \/ start
  \/ LoopStep
  \/ CycleStep("loop", PaceEnv)
  \/ \E t \in Callers, i \in 1..Len(Rooms), pref \in Temps :
        set_heating_user_preferences(t, Rooms[i], pref)

PrefsSpec == Init /\ [][PrefsNext]_vars

\* The loop with collaborators that answer and a storage device whose charge
\* level reads any value of CounterValues at each get_info().
StorageNext ==
  \/ Tick
  \/ start
  \/ LoopStep
  \/ CycleStep("loop", StorageEnv)

StorageSpec == Init /\ [][StorageNext]_vars

\* Scheduling: a thread that can take a step eventually takes it (the lock is
\* free again after finitely many calls), every collaborator call and the
\* bounded remote wait return, and the clock advances.  No caller is obliged to
\* make a call.
Fairness ==
  /\ WF_vars(Tick)
  /\ WF_vars(MainStep)
  /\ WF_vars(LoopStep)
  /\ \A t \in Threads : WF_vars(CycleStep(t, StillEnv))
  /\ \A t \in Callers :
       WF_vars(offload_now_159(t) \/ offload_now_raise(t) \/ update_slr_preferences_154(t))

FairSpec == Spec /\ Fairness

TypeOK ==
  /\ now \in 0..MaxTime
  /\ lock \in {"free"} \cup Threads
  /\ \A t \in Threads : InCycle(t) => lock = t
  /\ \A t \in Callers : pc[t] = "s153" => lock = t

\* ===================================================================== claims

\* C1: at no time are two cycles (executions of offload()) in progress at once,
\* whatever the interleaving of the loop thread with the threads that call
\* offload_now, set_cycle_length, set_speedup and update_slr_preferences.
C1_NoConcurrentCycles ==
  \A t1 \in Threads, t2 \in Threads : InCycle(t1) /\ InCycle(t2) => t1 = t2

\* A forced cycle is in progress while the loop thread's wait has timed out and
\* the other caller is free to call.
C1_Witness ==
  /\ pc["c1"] = "u181"
  /\ pc["loop"] = "l334" /\ TimedOut
  /\ CanCall("c2")

\* C2: once destroy() has set the shutdown flag the loop thread starts no new
\* cycle; a loop that was waiting when the flag was set exits without calling
\* offload().
C2_NoCycleStartsAfterShutdown == hist.loopStartsAfterFlag = 0

\* C3: an exception raised inside a cycle run by the loop thread does not end the
\* loop thread: it is caught at the cycle boundary and the loop waits again.
C3_LoopSurvivesCycleFailure == pc["loop"] # "crashed"

\* C4: when a collaborator read fails during update_algo_input, every register
\* has the value it had before that cycle.
C4_FailedReadKeepsRegisters ==
  \A t \in Threads : pc[t] = "raise" /\ ~cyc[t].built => Registers = cyc[t].base

\* C5: in a cycle where run_algo returned empty no set_params call is made;
\* device writes happen only after a non-empty result of the same cycle.
C5_NoWriteWithoutResult ==
  \A t \in Threads :
    /\ cyc[t].writes # <<>> => cyc[t].res = "res"
    /\ cyc[t].res = "none" => pc[t] \in {"o302", "oEnd"} /\ cyc[t].writes = <<>>

\* A loop cycle ended without a device write after the remote wait returned empty.
C5_Witness ==
  /\ pc["loop"] = "oEnd"
  /\ cyc["loop"].handle /\ cyc["loop"].res = "none" /\ cyc["loop"].writes = <<>>

\* C6: over cycles whose reads all succeed, loop-fired and forced in any
\* interleaving, every register is written once per cycle, each delta is the
\* value read in the cycle minus the value read in the cycle before (0 at first),
\* and the deltas reported so far sum to the latest value read; a counter that
\* decreased gives a negative delta and the cycle goes on.
C6_DeltasTelescope ==
  /\ hist.sumPlus = hist.readPlus
  /\ hist.sumMinus = hist.readMinus
  /\ hist.sumPv = hist.readPv
  /\ <<last_active_plus, last_active_minus, last_pv_energy>>
       = <<hist.readPlus, hist.readMinus, hist.readPv>>
  /\ \A t \in Threads :
       pc[t] = "r236" =>
         /\ cyc[t].built /\ cyc[t].regw = 5
         /\ cyc[t].dplus = hist.readPlus - cyc[t].base[2]
         /\ cyc[t].dminus = hist.readMinus - cyc[t].base[3]
         /\ cyc[t].dpv = hist.readPv - cyc[t].base[4]

\* A loop cycle that follows a forced cycle reports a negative grid-in delta and a
\* positive PV delta.
C6_Witness ==
  /\ pc["loop"] = "r236" /\ calls > 0
  /\ cyc["loop"].dplus < 0 /\ cyc["loop"].dpv > 0

\* The loop thread's wait ends on a notification.
WakesNotified == pc["loop"] = "l334" /\ notified /\ ~notified'

C8_ForcedCycleRunsNow ==
  \A t \in Callers :
    /\ CanCall(t) /\ lock = "free" /\ pc["loop"] = "l334" => ENABLED offload_now_157(t)
    /\ InCycle(t) => lock = t
    /\ pc[t] = "oEnd" =>
         /\ cyc[t].built
         /\ cyc[t].res \in {"res", "none"}
         /\ cyc[t].res = "res" => cyc[t].writes = Devices

\* A forced cycle has run to its end, with every device written, while the
\* loop thread waits for a deadline that has not been reached.
C8_Witness ==
  /\ pc["c1"] = "oEnd" /\ cyc["c1"].res = "res" /\ cyc["c1"].writes = Devices
  /\ pc["loop"] = "l334" /\ ~TimedOut /\ ~notified

\* C9: after destroy() is called on a started app the loop thread eventually
\* ends and destroy() returns, wherever the loop thread is.
C9_DestroyReturns ==
  shutdown_flag ~> (mainPc = "done" /\ pc["loop"] \in {"exit", "crashed"})

\* destroy() has returned and the loop thread has ended; destroy() was called
\* while the loop thread was waiting and a caller held the lock.
C9_Witness ==
  /\ mainPc = "done" /\ pc["loop"] = "exit"
  /\ hist.flagSetAt = "blocked"

\* C10: when destroy() is called while a cycle of the loop thread is in flight,
\* that cycle is the loop thread's last: the thread goes from the cycle to its
\* end and starts no further cycle.
C10_InFlightCycleIsLast ==
  hist.flagSetAt = "cycle" =>
    /\ hist.loopStartsAfterFlag = 0
    /\ InCycle("loop") \/ pc["loop"] \in {"exit", "crashed"}

\* destroy() was called during a loop cycle, the cycle ran to its end, the
\* loop thread ended and destroy() returned.
C10_Witness ==
  /\ hist.flagSetAt = "cycle"
  /\ pc["loop"] = "exit" /\ mainPc = "done"

\* C11: with no reconfiguration, forced trigger or shutdown, for every cadence
\* C = cycle_time and speed S = speedup: a cycle of the loop thread starts no
\* earlier than C/S after the start of the loop's previous cycle; while the loop
\* waits after a cycle, its wait times out exactly at previous start + C/S; and
\* the wake-up that ends the wait starts the next cycle at the clock value of
\* that wake-up.
C11_CadenceSpacing ==
  /\ [](calls = 0 /\ hist.lastBy = "loop" =>
          /\ pc["loop"] \in {"u172", "u173"} =>
                cyc["loop"].now * speedup >= cycle_time + hist.lastStart * speedup
          /\ pc["loop"] = "l334" =>
                until[1] * speedup = (cycle_time + hist.lastStart * speedup) * until[2])
  /\ [][calls = 0 /\ pc["loop"] = "l334" /\ pc'["loop"] # "l334" =>
          /\ pc'["loop"] = "u172" /\ cyc'["loop"].now = now
          /\ now * speedup >= cycle_time + last_algo_run * speedup]_vars

\* With cycle_time / speedup = 3 s, half a clock step: the loop's second cycle
\* starts at 12 s, one clock step after its first cycle's start at 6 s.
C11_Witness ==
  /\ calls = 0 /\ hist.lastBy = "loop" /\ pc["loop"] = "u172"
  /\ cycle_time = 6 /\ speedup = 2
  /\ hist.lastStart = 6 /\ cyc["loop"].now = 12

\* C12: while the loop thread executes a cycle it does not hold cond's lock, and
\* a caller free to call set_cycle_length or set_speedup can take the lock and
\* complete the call before the cycle ends.
C12_LoopCycleHoldsNoLock ==
  InCycle("loop") =>
    /\ lock # "loop"
    /\ \A t \in Callers :
         CanCall(t) => /\ \A c \in CycleValues : ENABLED set_cycle_length(t, c)
                       /\ \A v \in SpeedValues : ENABLED set_speedup(t, v)

\* C13: while a caller is inside update_slr_preferences with the lock held (from
\* runtime.update to the end of the settle delay), no thread is in a cycle, no
\* step starts a cycle or completes a call of a lock-taking setter, and the
\* registers, cycle_time and speedup keep their values.
C13_SettleWindowIsQuiet ==
  [][(\E t \in Callers : pc[t] = "s153" /\ pc'[t] = "s153") =>
       /\ \A u \in Threads : ~InCycle(u) /\ pc'[u] \notin CyclePcs
       /\ calls' = calls
       /\ Registers' = Registers
       /\ cycle_time' = cycle_time /\ speedup' = speedup]_vars

\* C14: the step_timedelta_s computed at line 172 is never negative, in any
\* interleaving of the loop thread's line 317 with cycles forced by offload_now.
C14_StepTimedeltaNonNegative ==
  \A t \in Threads : pc[t] \in {"u173", "u176", "u181", "r236"} => cyc[t].step >= 0

\* C15: with collaborators that answer, one set_heating_user_preferences call
\* made while update_algo_input iterates over the mapping never makes the cycle
\* fail, and the room list the iteration yields is the mapping as it was before
\* the call or as it is after it.
C15_PreferencesReadAtomically ==
  \A t \in Threads :
    /\ pc[t] = "raise" => cyc[t].built
    /\ pc[t] = "u181" =>
         /\ hist.prefCalls = cyc[t].iterAt => cyc[t].rooms = heating_user_preferences
         /\ hist.prefCalls = cyc[t].iterAt + 1 =>
              cyc[t].rooms \in {hist.prevPrefs, heating_user_preferences}

\* C16: when one set_params call of execute_algo_response fails, the cycle is not
\* aborted and every other device is still written in that cycle.
C16_WriteFailureIsNotFatal ==
  \A t \in Threads :
    cyc[t].res = "res" /\ pc[t] \in {"oEnd", "raise"} =>
      /\ pc[t] = "oEnd"
      /\ Len(cyc[t].writes) >= Len(Devices) - 1

\* C17: in remote mode runtime.wait is called only with a handle from
\* call_async, and at most once per cycle; run_algo never raises; when it has
\* returned it has produced a result or empty, and the result exactly when
\* there was a handle and the wait returned a context whose res and res.res are
\* not None.
C17_RemoteDecisionOutcome ==
  \A t \in Threads :
    use_cognit =>
      /\ cyc[t].waits <= 1
      /\ cyc[t].waits = 1 => cyc[t].handle
      /\ pc[t] = "raise" => cyc[t].res = "res"
      /\ pc[t] \in {"o302", "oEnd", "raise"} =>
           /\ cyc[t].res \in {"res", "none"}
           /\ cyc[t].res = "res" <=> cyc[t].handle /\ cyc[t].wait = "res"
           /\ cyc[t].handle <=> cyc[t].waits = 1

\* Remote mode: the submission returned a handle and the wait returned a
\* context without a result; run_algo returned empty and the cycle ended
\* without a device write.
C17_Witness ==
  /\ use_cognit /\ pc["loop"] = "oEnd"
  /\ cyc["loop"].handle /\ cyc["loop"].wait = "nores" /\ cyc["loop"].res = "none"
  /\ cyc["loop"].writes = <<>>

\* C18: in every cycle input, charge_level_of_storage equals the
\* curr_charge_level of the same input's storage_parameters.
C18_ChargeLevelNotTorn ==
  \A t \in Threads : pc[t] = "r236" => cyc[t].charge = cyc[t].storage0

\* C19: with no reconfiguration or shutdown, a cycle of the loop thread that
\* follows a forced cycle starts no earlier than cycle_time / speedup after the
\* forced cycle's start.
C19_ForcedCycleRebasesSchedule ==
  pc["loop"] \in {"u172", "u173"} /\ hist.lastBy = "forced" =>
    cyc["loop"].now * speedup >= cycle_time + hist.lastStart * speedup

\* C20: between two consecutive cycles the loop thread waits on the condition,
\* which releases the lock, even when the next deadline has already passed: the
\* step that ends a cycle of the loop thread leads to the wait (or to the
\* thread's end) with the lock free, never straight into the next cycle, and
\* the loop thread enters a cycle only from the wait.
C20_LoopWaitsBetweenCycles ==
  [][ /\ pc["loop"] = "oEnd" /\ pc'["loop"] # "oEnd" =>
           pc'["loop"] \in {"l334", "exit"} /\ lock' = "free"
      /\ pc'["loop"] = "u172" /\ pc["loop"] # "u172" => pc["loop"] = "l334"
      /\ pc'["loop"] = "l334" => lock' # "loop"
    ]_vars

\* A cycle of the loop thread ended after the next deadline had passed; the
\* loop thread waits, the lock is free and a caller can take it.
C20_Witness ==
  /\ pc["loop"] = "l334" /\ hist.lateWait /\ ~shutdown_flag
  /\ lock = "free" /\ CanCall("c1")

====
